---- MODULE Spec2Model ----
(***************************************************************************)
(* Model of the news-article scraper (src/new.py): text normalisation, the *)
(* per-source extraction functions, scrape_article, save_to_json and the   *)
(* batch driver main.                                                      *)
(*                                                                         *)
(* Text is modelled as a sequence of tokens.  A token stands for a maximal *)
(* piece of text of one kind and carries its number of characters:         *)
(*   "w"    n non-whitespace characters holding no footer or skip phrase   *)
(*   "s"    n blanks or tabs                                               *)
(*   "nl"   one line break                                                 *)
(*   "foot" an occurrence (any letter case) of a remove_footer_lines       *)
(*          phrase, n characters                                           *)
(*   "skip" an occurrence of a skip word of scrape_livemint_enhanced,      *)
(*          n characters                                                   *)
(* The token's id tells two pieces of the same kind and size apart.        *)
(***************************************************************************)
EXTENDS Integers, Sequences, FiniteSets, TLC

\* ---------------------------------------------------------------- text

W(n, id) == [k |-> "w", n |-> n, id |-> id]
S(n) == [k |-> "s", n |-> n, id |-> 0]
NL == [k |-> "nl", n |-> 1, id |-> 0]
FOOT(n) == [k |-> "foot", n |-> n, id |-> 0]
SKIP(n) == [k |-> "skip", n |-> n, id |-> 0]
\* The two words of a footer phrase written with one blank, such as "log in".
FOOT1 == [k |-> "fa", n |-> 3, id |-> 0]
FOOT2 == [k |-> "fb", n |-> 2, id |-> 0]

\* The single blank that re.sub and " ".join put between pieces.
SP == S(1)

IsSpace(t) == t.k \in {"s", "nl"}

\* len(text)
RECURSIVE TextLen(_)
TextLen(text) ==
    IF text = <<>> THEN 0 ELSE Head(text).n + TextLen(Tail(text))

\* str.lstrip / str.rstrip / str.strip
RECURSIVE LStrip(_)
LStrip(text) ==
    IF text = <<>> THEN <<>>
    ELSE IF IsSpace(Head(text)) THEN LStrip(Tail(text)) ELSE text

RECURSIVE RStrip(_)
RStrip(text) ==
    IF text = <<>> THEN <<>>
    ELSE IF IsSpace(text[Len(text)]) THEN RStrip(SubSeq(text, 1, Len(text) - 1))
    ELSE text

Strip(text) == RStrip(LStrip(text))

\* re.sub(r"\s+", " ", text): every maximal run of whitespace becomes one blank.
RECURSIVE CollapseSpace(_)
CollapseSpace(text) ==
    IF text = <<>> THEN <<>>
    ELSE IF IsSpace(Head(text))
         THEN <<SP>> \o CollapseSpace(LStrip(text))
         ELSE <<Head(text)>> \o CollapseSpace(Tail(text))

clean_text(text) == CollapseSpace(Strip(text))

\* str.splitlines: the lines between line breaks; a final line break opens no
\* further line.
RECURSIVE SplitFrom(_, _)
SplitFrom(text, cur) ==
    IF text = <<>> THEN (IF cur = <<>> THEN <<>> ELSE <<cur>>)
    ELSE IF Head(text).k = "nl" THEN <<cur>> \o SplitFrom(Tail(text), <<>>)
    ELSE SplitFrom(Tail(text), Append(cur, Head(text)))

SplitLines(text) == SplitFrom(text, <<>>)

\* any(phrase.lower() in line.lower() for phrase in [...])
HasFooterPhrase(line) ==
    \/ \E i \in 1..Len(line) : line[i].k = "foot"
    \/ \E i \in 1..(Len(line) - 2) :
          line[i].k = "fa" /\ line[i + 1] = SP /\ line[i + 2].k = "fb"

\* " ".join(parts)
RECURSIVE JoinSp(_)
JoinSp(parts) ==
    IF parts = <<>> THEN <<>>
    ELSE IF Len(parts) = 1 THEN Head(parts)
    ELSE Head(parts) \o <<SP>> \o JoinSp(Tail(parts))

RECURSIVE KeepLines(_)
KeepLines(lines) ==
    IF lines = <<>> THEN <<>>
    ELSE LET line == Strip(Head(lines)) IN
         IF line = <<>> \/ HasFooterPhrase(line) THEN KeepLines(Tail(lines))
         ELSE <<line>> \o KeepLines(Tail(lines))

remove_footer_lines(text) == JoinSp(KeepLines(SplitLines(text)))

\* The two calls the other way round: lines are filtered, then blanks collapse.
NormalizeLinesFirst(text) == clean_text(remove_footer_lines(text))

\* The two calls every extraction strategy of new.py makes on a candidate.
Normalize(text) == remove_footer_lines(clean_text(text))

CONTENT_MIN_LENGTH == 200

\* "Content not found": three words, 17 characters.
SENTINEL == <<W(7, 901), SP, W(3, 902), SP, W(5, 903)>>

\* The content scrape_article gives when the fetch produced no document.
EMPTY == <<>>

\* The length check written with >=.
AcceptsAtLeast(text) == TextLen(text) >= CONTENT_MIN_LENGTH

\* if len(text) > CONTENT_MIN_LENGTH
Accepts(text) == TextLen(text) > CONTENT_MIN_LENGTH

\* ------------------------------------------------------------ documents
\* A parsed page (BeautifulSoup), seen through the queries new.py makes on it:
\*   sel        select_one(selector) for the probe selectors: the text of the
\*              first matching element, no match (None), or the evaluation
\*              raises
\*   relParas   select("div.release-body p"): the texts of those paragraphs
\*   divs       find_all("div"): each div's text, or an error when reading
\*              that div raises
\*   paras      find_all("p"): each paragraph's text
\*   body       the text of the body element once script, style, nav, header,
\*              footer and aside elements are taken out (no function of
\*              new.py reads it)
Found(t) == [st |-> "found", text |-> t]
NoMatch == [st |-> "none", text |-> <<>>]
SelError == [st |-> "error", text |-> <<>>]

\* The raw texts pages are built from.  Lengths sit on both sides of
\* CONTENT_MIN_LENGTH, before and after normalisation.
TShort == <<W(50, 1)>>
T200 == <<S(2), W(120, 2), S(3), W(79, 3), NL>>
T201 == <<W(120, 2), S(2), NL, W(80, 4)>>
TLong == <<W(300, 5)>>
TLongB == <<W(300, 17)>>
TLong2 == <<S(1), W(150, 6), NL, NL, W(150, 7), S(4)>>
TFoot == <<W(250, 8), NL, FOOT(9), S(1), W(20, 9)>>
TSkip == <<W(230, 10), S(1), SKIP(10)>>
THuge == <<W(400, 11), S(1), W(100, 12)>>
TPara1 == <<W(120, 13), S(1)>>
TPara2 == <<NL, W(90, 14)>>

\* Texts a selector's first match may hold.
SelTexts == {TShort, T200, T201, TLong, TFoot}

\* The selectors a bounded page may match or fail on; a page matches no other.
ProbeSelectors ==
    { "div.artText", "div.Normal", "div.articlebodycontent",
      "div.release-body", "article" }

\* At most MaxHits of the probe selectors match (or raise) on one page.
MaxHits == 2

SelMaps ==
    { f \in [ProbeSelectors -> {Found(t) : t \in SelTexts} \cup {NoMatch, SelError}] :
        Cardinality({s \in ProbeSelectors : f[s] # NoMatch}) <= MaxHits }

\* Paragraph lists: none; too little text; enough text only when joined;
\* enough text but one paragraph holds a footer phrase; exactly 200 and
\* exactly 201 normalised characters.
ParaLists ==
    { <<>>, <<TShort>>, <<TPara1, TPara2>>, <<TLong, TFoot>>, <<T200>>, <<T201>> }

\* Div lists: none; one short div; two long divs, the larger last; a div with
\* a skip word, a div that cannot be read, and a long div; a div of exactly
\* 200 and one of exactly 201 normalised characters.
DivLists ==
    { <<>>,
      <<Found(TShort)>>,
      <<Found(TLong2), Found(THuge)>>,
      <<Found(TSkip), SelError, Found(TLong)>>,
      <<Found(T200), Found(T201)>>,
      <<Found(TLong), Found(TLongB)>>,
      <<Found(TSkip), SelError>> }

\* Paragraphs under div.release-body exist only when such a div exists.
RelParaLists == { <<>>, <<TPara1, TPara2>>, <<T200>>, <<T201>> }

\* The body holds the text of everything in it: it is short only on a page
\* whose matched elements, divs and paragraphs are all short.
TBody == <<S(2), W(260, 15), NL, W(40, 16)>>
BodyTexts == {TShort, TBody}

\* At most MaxParts parts of one page hold anything: each matching (or
\* raising) probe selector, the divs, the paragraphs and the paragraphs under
\* div.release-body count as one part each.
MaxParts == 3

Parts(d) ==
    Cardinality({s \in ProbeSelectors : d.sel[s] # NoMatch})
    + (IF d.divs # <<>> THEN 1 ELSE 0)
    + (IF d.paras # <<>> THEN 1 ELSE 0)
    + (IF d.relParas # <<>> THEN 1 ELSE 0)

Docs ==
    { d \in [sel : SelMaps, relParas : RelParaLists, divs : DivLists,
             paras : ParaLists, body : BodyTexts] :
        /\ Parts(d) <= MaxParts
        /\ d.relParas # <<>> => d.sel["div.release-body"] # NoMatch
        /\ d.body = TShort =>
              /\ \A s \in ProbeSelectors : d.sel[s] \in {NoMatch, SelError, Found(TShort)}
              /\ d.divs \in {<<>>, <<Found(TShort)>>}
              /\ d.paras \in {<<>>, <<TShort>>}
              /\ d.relParas = <<>> }

\* soup.select_one(selector)
SelectOne(soup, selector) ==
    IF selector \in ProbeSelectors THEN soup.sel[selector] ELSE NoMatch

\* ----------------------------------------------------------- extraction
\* What a call of an extraction function gives: it returns content or raises;
\* trace lists, in order, the strategies it evaluated.
Return(text, trace) == [outcome |-> "return", content |-> text, trace |-> trace]
Raise(trace) == [outcome |-> "raise", content |-> EMPTY, trace |-> trace]
Exhausted(trace) == [outcome |-> "exhausted", content |-> EMPTY, trace |-> trace]

\* for selector in selectors: content = soup.select_one(selector); if content:
\* text = remove_footer_lines(clean_text(content.get_text()));
\* if len(text) > CONTENT_MIN_LENGTH: return text
\* catch tells whether the loop body sits in try/except Exception.
RECURSIVE SelectorLoop(_, _, _, _, _)
SelectorLoop(soup, selectors, i, catch, trace) ==
    IF i > Len(selectors) THEN Exhausted(trace)
    ELSE LET r == SelectOne(soup, selectors[i])
             tr == Append(trace, selectors[i])
             text == Normalize(r.text)
         IN  IF r.st = "error"
             THEN (IF catch THEN SelectorLoop(soup, selectors, i + 1, catch, tr)
                   ELSE Raise(tr))
             ELSE IF r.st = "found" /\ Accepts(text) THEN Return(text, tr)
             ELSE SelectorLoop(soup, selectors, i + 1, catch, tr)

\* The shape shared by the per-source functions of new.py lines 335-571:
\* the selector loop, then return "Content not found".
SelectorScraper(soup, selectors) ==
    LET r == SelectorLoop(soup, selectors, 1, FALSE, <<>>)
    IN  IF r.outcome = "exhausted" THEN Return(SENTINEL, r.trace) ELSE r

\* --------------------------------------------- the extraction functions
livemint_selectors ==
    << "div[data-vars-section=\"article\"]", "div.contentSec",
       "div.mainArea", "div.textRubik", "div[class*=\"articleBody\"]",
       "div.articlePage", "div.FirstEle", "div.paywall", "div.main-content",
       "div.article-content", "div.story-content", "div#content",
       "div.content", "article", "main", "[role=\"main\"]",
       "div.storyContent", "div.storyDetails", "div.story-body",
       "div.article-body", "div.post-content", "div.entry-content",
       "section.article", "section.story", "div[class*=\"content\"]",
       "div[class*=\"article\"]", "div[class*=\"story\"]",
       "div[class*=\"text\"]", "div[id*=\"content\"]",
       "div[id*=\"article\"]", "div[id*=\"story\"]" >>

\* not any(skip_word in text.lower() for skip_word in [...])
HasSkipWord(text) == \E i \in 1..Len(text) : text[i].k = "skip"

\* The largest-block step with ">=" for ">": a later div of equal length wins.
RECURSIVE LargestBlockLastWins(_, _, _)
LargestBlockLastWins(divs, i, best) ==
    IF i > Len(divs) THEN best
    ELSE LET text == Normalize(divs[i].text) IN
         IF divs[i].st = "error" THEN LargestBlockLastWins(divs, i + 1, best)
         ELSE IF TextLen(text) >= TextLen(best) /\ Accepts(text) /\ ~HasSkipWord(text)
              THEN LargestBlockLastWins(divs, i + 1, text)
         ELSE LargestBlockLastWins(divs, i + 1, best)

\* for div in divs: try: ... except Exception: continue
\* best is the pair best_content, best_length of the loop so far.
RECURSIVE LargestBlock(_, _, _)
LargestBlock(divs, i, best) ==
    IF i > Len(divs) THEN best
    ELSE LET text == Normalize(divs[i].text) IN
         IF divs[i].st = "error" THEN LargestBlock(divs, i + 1, best)
         ELSE IF TextLen(text) > TextLen(best) /\ Accepts(text) /\ ~HasSkipWord(text)
              THEN LargestBlock(divs, i + 1, text)
         ELSE LargestBlock(divs, i + 1, best)

\* " ".join([p.get_text() for p in paragraphs]), then the two normalising calls
ParagraphText(paras) == Normalize(JoinSp(paras))

\* debug_page_structure(soup, url) only logs, with no try/except: it
\* evaluates soup.select("article") and the text of every div once more, and
\* raises where that evaluation raises.
debug_page_structure(soup) ==
    IF \/ SelectOne(soup, "article").st = "error"
       \/ \E j \in 1..Len(soup.divs) : soup.divs[j].st = "error"
    THEN "raise" ELSE "return"

\* The selector loop, the largest text block, paragraph aggregation, then
\* debug_page_structure and the sentinel.
scrape_livemint_enhanced(soup, url) ==
    LET r == SelectorLoop(soup, livemint_selectors, 1, TRUE, <<>>)
        best == LargestBlock(soup.divs, 1, EMPTY)
        t2 == Append(r.trace, "largest-block")
        text == ParagraphText(soup.paras)
        t3 == Append(t2, "paragraphs")
    IN  IF r.outcome # "exhausted" THEN r
        ELSE IF best # EMPTY THEN Return(best, t2)
        ELSE IF Accepts(text) THEN Return(text, t3)
        ELSE IF debug_page_structure(soup) = "raise" THEN Raise(t3)
        ELSE Return(SENTINEL, t3)

scrape_livemint(soup) == scrape_livemint_enhanced(soup, "")

pr_newswire_selectors ==
    << "div.content-release", "div.release-body", "div#main-content",
       "div#newsContent", "article" >>

\* p.get_text(strip=True) of each paragraph
RECURSIVE StripEach(_)
StripEach(paras) ==
    IF paras = <<>> THEN <<>>
    ELSE <<Strip(Head(paras))>> \o StripEach(Tail(paras))

\* scrape_pr_newswire with its selectors tried last to first.
RECURSIVE ReverseSeq(_)
ReverseSeq(q) == IF q = <<>> THEN <<>> ELSE Append(ReverseSeq(Tail(q)), Head(q))

scrape_pr_newswire_reversed(soup) ==
    LET r == SelectorLoop(soup, ReverseSeq(pr_newswire_selectors), 1, FALSE, <<>>)
    IN  IF r.outcome # "exhausted" THEN r ELSE Return(SENTINEL, r.trace)

scrape_pr_newswire(soup) ==
    LET r == SelectorLoop(soup, pr_newswire_selectors, 1, FALSE, <<>>)
        text == clean_text(JoinSp(StripEach(soup.relParas)))
        tr == Append(r.trace, "release-paragraphs")
    IN  IF r.outcome # "exhausted" THEN r
        ELSE IF soup.relParas # <<>> /\ Accepts(text) THEN Return(text, tr)
        ELSE Return(SENTINEL, tr)

economic_times_selectors ==
    << "div.artText", "div.article_body", "div.Normal", "section.artText" >>

scrape_economic_times(soup) == SelectorScraper(soup, economic_times_selectors)

thehindu_selectors ==
    << "div.articlebodycontent", "div[class*=\"article-body\"]",
       "div[itemprop=\"articleBody\"]" >>

scrape_thehindu(soup) == SelectorScraper(soup, thehindu_selectors)

zee_news_selectors ==
    << "div.article-content", "div#story", "div.articleText",
       "div.newsDetails" >>

scrape_zee_news(soup) == SelectorScraper(soup, zee_news_selectors)

hindustan_times_selectors ==
    << "div.storyDetails", "div.htImport", "div[class*=\"detail-body\"]" >>

scrape_hindustan_times(soup) == SelectorScraper(soup, hindustan_times_selectors)

india_today_selectors ==
    << "div#story", "div.description", "div.article-body", "div#story-left" >>

scrape_india_today(soup) == SelectorScraper(soup, india_today_selectors)

india_tv_news_selectors ==
    << "div.article_content", "div#articleBody", "div.story-content" >>

scrape_india_tv_news(soup) == SelectorScraper(soup, india_tv_news_selectors)

times_of_india_selectors ==
    << "div.Normal", "div._s30J", "div.article_content" >>

scrape_times_of_india(soup) == SelectorScraper(soup, times_of_india_selectors)

et_now_selectors ==
    << "div.article__content", "div.content_box", "div.article_body" >>

scrape_et_now(soup) == SelectorScraper(soup, et_now_selectors)

indian_express_selectors ==
    << "div.full-details", "div.ie-first-para", "div.article-details" >>

scrape_indian_express(soup) == SelectorScraper(soup, indian_express_selectors)

news18_selectors ==
    << "div.article_container", "div#article_body", "div.storyContent" >>

scrape_news18(soup) == SelectorScraper(soup, news18_selectors)

business_standard_selectors ==
    << "div.storyContent", "div#story-content", "div.article-content" >>

scrape_business_standard(soup) == SelectorScraper(soup, business_standard_selectors)

deccan_herald_selectors ==
    << "div.article-main", "div.field-items", "div.article-content" >>

scrape_deccan_herald(soup) == SelectorScraper(soup, deccan_herald_selectors)

firstpost_selectors ==
    << "div.text-copy", "div.article-full-content", "div.main-article" >>

scrape_firstpost(soup) == SelectorScraper(soup, firstpost_selectors)

the_print_selectors ==
    << "div.tdb_single_post_content", "div.content-wrap",
       "div.td-post-content" >>

scrape_the_print(soup) == SelectorScraper(soup, the_print_selectors)

the_wire_selectors ==
    << "div.article-content", "div#article_content", "div.td-post-content" >>

scrape_the_wire(soup) == SelectorScraper(soup, the_wire_selectors)

moneycontrol_selectors ==
    << "div#article-main", "div.content_wrapper", "div#story-main" >>

scrape_moneycontrol(soup) == SelectorScraper(soup, moneycontrol_selectors)

free_press_journal_selectors ==
    << "div.article-detail", "div#story-content",
       "div.main-article-content" >>

scrape_free_press_journal(soup) == SelectorScraper(soup, free_press_journal_selectors)

\* scrape_generic without the length check.
scrape_generic_nogate(soup) == Return(ParagraphText(soup.paras), <<"paragraphs">>)

scrape_generic(soup) ==
    LET text == ParagraphText(soup.paras)
    IN  IF Accepts(text) THEN Return(text, <<"paragraphs">>)
        ELSE Return(SENTINEL, <<"paragraphs">>)

\* The scrapers dict of get_scraper_for_source: source name -> function.
scrapers ==
    [ s \in { "PR Newswire", "Economic Times", "LiveMint", "The Hindu", "Zee News",
              "Hindustan Times", "India Today", "India TV News", "Times of India",
              "ET Now", "Indian Express", "News18", "Business Standard",
              "Deccan Herald", "Firstpost", "The Print", "The Wire", "Moneycontrol",
              "Free Press Journal" } |->
        CASE s = "PR Newswire" -> "scrape_pr_newswire"
          [] s = "Economic Times" -> "scrape_economic_times"
          [] s = "LiveMint" -> "scrape_livemint"
          [] s = "The Hindu" -> "scrape_thehindu"
          [] s = "Zee News" -> "scrape_zee_news"
          [] s = "Hindustan Times" -> "scrape_hindustan_times"
          [] s = "India Today" -> "scrape_india_today"
          [] s = "India TV News" -> "scrape_india_tv_news"
          [] s = "Times of India" -> "scrape_times_of_india"
          [] s = "ET Now" -> "scrape_et_now"
          [] s = "Indian Express" -> "scrape_indian_express"
          [] s = "News18" -> "scrape_news18"
          [] s = "Business Standard" -> "scrape_business_standard"
          [] s = "Deccan Herald" -> "scrape_deccan_herald"
          [] s = "Firstpost" -> "scrape_firstpost"
          [] s = "The Print" -> "scrape_the_print"
          [] s = "The Wire" -> "scrape_the_wire"
          [] s = "Moneycontrol" -> "scrape_moneycontrol"
          [] s = "Free Press Journal" -> "scrape_free_press_journal" ]

\* The lookup without its default: scrapers.get(source).
get_scraper_for_source_no_default(source) ==
    IF source \in DOMAIN scrapers THEN scrapers[source] ELSE "None"

\* scrapers.get(source, scrape_generic)
get_scraper_for_source(source) ==
    IF source \in DOMAIN scrapers THEN scrapers[source] ELSE "scrape_generic"

\* Calling the function get_scraper_for_source returned.
CallScraper(f, soup) ==
    CASE f = "scrape_pr_newswire" -> scrape_pr_newswire(soup)
      [] f = "scrape_economic_times" -> scrape_economic_times(soup)
      [] f = "scrape_livemint" -> scrape_livemint(soup)
      [] f = "scrape_thehindu" -> scrape_thehindu(soup)
      [] f = "scrape_zee_news" -> scrape_zee_news(soup)
      [] f = "scrape_hindustan_times" -> scrape_hindustan_times(soup)
      [] f = "scrape_india_today" -> scrape_india_today(soup)
      [] f = "scrape_india_tv_news" -> scrape_india_tv_news(soup)
      [] f = "scrape_times_of_india" -> scrape_times_of_india(soup)
      [] f = "scrape_et_now" -> scrape_et_now(soup)
      [] f = "scrape_indian_express" -> scrape_indian_express(soup)
      [] f = "scrape_news18" -> scrape_news18(soup)
      [] f = "scrape_business_standard" -> scrape_business_standard(soup)
      [] f = "scrape_deccan_herald" -> scrape_deccan_herald(soup)
      [] f = "scrape_firstpost" -> scrape_firstpost(soup)
      [] f = "scrape_the_print" -> scrape_the_print(soup)
      [] f = "scrape_the_wire" -> scrape_the_wire(soup)
      [] f = "scrape_moneycontrol" -> scrape_moneycontrol(soup)
      [] f = "scrape_free_press_journal" -> scrape_free_press_journal(soup)
      [] OTHER -> scrape_generic(soup)

\* ------------------------------------------------------- scrape_article
\* get_page_content(url): a parsed page, or None (request error, error status
\* or a content type other than text/html).
NoPage == [sel |-> [s \in ProbeSelectors |-> NoMatch], relParas |-> <<>>,
           divs |-> <<>>, paras |-> <<>>, body |-> <<>>]
FetchNone == [ok |-> FALSE, page |-> NoPage]
FetchPage(d) == [ok |-> TRUE, page |-> d]
Fetches == {FetchNone} \cup {FetchPage(d) : d \in Docs}

\* The dict scrape_article returns.
Article(url, source, content) == [url |-> url, source |-> source, content |-> content]

\* scrape_article(url, source), given what get_page_content(url) gave.
\* outcome "raise": the extraction function raised and so does scrape_article.
scrape_article(url, source, fetch) ==
    IF ~fetch.ok
    THEN [outcome |-> "return", article |-> Article(url, source, EMPTY), trace |-> <<>>]
    ELSE LET r == CallScraper(get_scraper_for_source(source), fetch.page)
         IN  [outcome |-> r.outcome, article |-> Article(url, source, r.content),
              trace |-> r.trace]

\* ---------------------------------------------------- infer_source_name
\* A URL is its host and a number standing for the rest of it.
Url(host, n) == [host |-> host, n |-> n]

\* The mapping dict of infer_source_name: domain -> source name.
mapping ==
    [ d \in { "prnewswire.com", "economictimes.indiatimes.com", "livemint.com",
              "thehindu.com", "zeenews.india.com", "hindustantimes.com",
              "indiatoday.in", "indiatvnews.com", "timesofindia.indiatimes.com",
              "etnownews.com", "indianexpress.com", "news18.com",
              "business-standard.com", "deccanherald.com", "firstpost.com",
              "theprint.in", "thewire.in", "moneycontrol.com",
              "freepressjournal.in" } |->
        CASE d = "prnewswire.com" -> "PR Newswire"
          [] d = "economictimes.indiatimes.com" -> "Economic Times"
          [] d = "livemint.com" -> "LiveMint"
          [] d = "thehindu.com" -> "The Hindu"
          [] d = "zeenews.india.com" -> "Zee News"
          [] d = "hindustantimes.com" -> "Hindustan Times"
          [] d = "indiatoday.in" -> "India Today"
          [] d = "indiatvnews.com" -> "India TV News"
          [] d = "timesofindia.indiatimes.com" -> "Times of India"
          [] d = "etnownews.com" -> "ET Now"
          [] d = "indianexpress.com" -> "Indian Express"
          [] d = "news18.com" -> "News18"
          [] d = "business-standard.com" -> "Business Standard"
          [] d = "deccanherald.com" -> "Deccan Herald"
          [] d = "firstpost.com" -> "Firstpost"
          [] d = "theprint.in" -> "The Print"
          [] d = "thewire.in" -> "The Wire"
          [] d = "moneycontrol.com" -> "Moneycontrol"
          [] d = "freepressjournal.in" -> "Free Press Journal" ]

\* The hosts of the URLs of the model: the mapped domains, two of them also
\* with a www. prefix, and two unmapped hosts.
Hosts == DOMAIN mapping \cup {"www.livemint.com", "www.thehindu.com",
                              "example.com", "www.example.org"}

\* urlparse(url).netloc.lower().replace("www.", ""), on the hosts of the model
DomainOf(host) ==
    CASE host = "www.livemint.com" -> "livemint.com"
      [] host = "www.thehindu.com" -> "thehindu.com"
      [] host = "www.example.org" -> "example.org"
      [] OTHER -> host

\* domain.replace(".", "_"), on the unmapped domains of the model
Underscored(domain) ==
    CASE domain = "example.com" -> "example_com"
      [] domain = "example.org" -> "example_org"
      [] OTHER -> domain

infer_source_name(url) ==
    LET domain == DomainOf(url.host)
    IN  IF domain \in DOMAIN mapping THEN mapping[domain] ELSE Underscored(domain)

\* --------------------------------------------------------- save_to_json
\* The file of one source: absent, not parsable as JSON, or a JSON array of
\* articles.  Files are keyed by source name: source.replace(" ", "_") gives
\* distinct file names for the distinct source names of the model.
FileMissing == [st |-> "missing", data |-> <<>>]
FileCorrupt == [st |-> "corrupt", data |-> <<>>]
FileOf(data) == [st |-> "ok", data |-> data]

\* os.path.exists / json.load with the bare except: the existing list
LoadExisting(file) == IF file.st = "ok" THEN file.data ELSE <<>>

\* urls = {a["url"] for a in existing}
UrlSet(list) == {list[k].url : k \in 1..Len(list)}

\* new_articles = [a for a in articles if a["url"] not in urls]
NewArticles(articles, existing) ==
    LET urls == UrlSet(existing)
        Fresh(a) == a.url \notin urls
    IN  SelectSeq(articles, Fresh)

\* save_to_json that gives up on a file it cannot parse.
save_to_json_corrupt_aborts(articles, source, fs) ==
    LET existing == LoadExisting(fs[source])
        new_articles == NewArticles(articles, existing)
    IN  IF new_articles # <<>> /\ fs[source].st # "corrupt"
        THEN [files |-> [fs EXCEPT ![source] = FileOf(existing \o new_articles)],
              wrote |-> TRUE, inserted |-> Len(new_articles)]
        ELSE [files |-> fs, wrote |-> FALSE, inserted |-> 0]

\* save_to_json variants: new entries put first; no URL filter; a write on
\* every call.
save_to_json_prepend(articles, source, fs) ==
    LET existing == LoadExisting(fs[source])
        new_articles == NewArticles(articles, existing)
    IN  IF new_articles # <<>>
        THEN [files |-> [fs EXCEPT ![source] = FileOf(new_articles \o existing)],
              wrote |-> TRUE, inserted |-> Len(new_articles)]
        ELSE [files |-> fs, wrote |-> FALSE, inserted |-> 0]

save_to_json_nofilter(articles, source, fs) ==
    LET existing == LoadExisting(fs[source])
    IN  IF articles # <<>>
        THEN [files |-> [fs EXCEPT ![source] = FileOf(existing \o articles)],
              wrote |-> TRUE, inserted |-> Len(articles)]
        ELSE [files |-> fs, wrote |-> FALSE, inserted |-> 0]

save_to_json_always_write(articles, source, fs) ==
    LET existing == LoadExisting(fs[source])
        new_articles == NewArticles(articles, existing)
    IN  [files |-> [fs EXCEPT ![source] = FileOf(existing \o new_articles)],
         wrote |-> TRUE, inserted |-> Len(new_articles)]

\* save_to_json(articles, source, folder) on the files fs: the files after the
\* call, whether the file was opened for writing, and len(new_articles).
save_to_json(articles, source, fs) ==
    LET existing == LoadExisting(fs[source])
        new_articles == NewArticles(articles, existing)
    IN  IF new_articles # <<>>
        THEN [files |-> [fs EXCEPT ![source] = FileOf(existing \o new_articles)],
              wrote |-> TRUE, inserted |-> Len(new_articles)]
        ELSE [files |-> fs, wrote |-> FALSE, inserted |-> 0]

\* A file that open(filename, "w") truncated and json.dump did not finish:
\* json.load fails on it.
FilePartial == [st |-> "partial", data |-> <<>>]

\* The ways the write of save_to_json lines 633-634 fails: open raises and
\* the file is untouched, or json.dump raises and a truncated file is left.
WriteFaults == {"open", "dump"}

\* The same with the write wrapped in a try/except that logs and goes on.
save_to_json_write_swallowed(articles, source, fs, how) ==
    [files |-> IF how = "open" THEN fs ELSE [fs EXCEPT ![source] = FilePartial],
     outcome |-> "return"]

\* save_to_json(articles, source, folder) when there are new articles and the
\* write fails: nothing in save_to_json catches the error, the call raises.
save_to_json_write_fails(articles, source, fs, how) ==
    [files |-> IF how = "open" THEN fs ELSE [fs EXCEPT ![source] = FilePartial],
     outcome |-> "raise"]

\* ---------------------------------------------------------------- state
VARIABLES
    call,             \* scrape_article: the url and source it is called with
    cpc,              \* scrape_article: "idle", "ready" (called), "done"
    fetched,          \* scrape_article: what get_page_content gave
    result,           \* scrape_article: what the call gave
    pc,               \* main: "idle", "start", "scrape", "save", "done", "raised"
    urls,             \* main: the urls read from search_results.json
    i,                \* main: number of urls of the loop already processed
    grouped_articles, \* main: source -> articles, in insertion order
    k,                \* main: number of groups already saved
    files,            \* the files of OUTPUT_FOLDER, by source
    files0,           \* the files as they were when the run began
    lastSave,         \* the latest save_to_json call and what it did
    prevSave,         \* the save_to_json call before it
    nSaves,           \* number of save_to_json calls that returned so far
    saveFault,        \* the save_to_json call whose write failed, if any
    raw,              \* normaliser: the text it is given
    norm,             \* normaliser: what it made of raw
    renorm,           \* normaliser: what it made of norm
    npc,              \* normaliser: "idle", "ready", "once", "twice"
    wpc,              \* workers: where each stands in its save_to_json call
    wbatch,           \* workers: the articles each is called with
    wexisting,        \* workers: the list each holds in memory
    args,             \* search: the parameters of the call
    spc,              \* search: "idle", "call", "try", "sleep", "done"
    retry_count,      \* search: the local of that name
    attempts,         \* search: how each request sent so far ended
    response,         \* search: what the call returned
    waits,            \* search: number of time.sleep calls made
    pattern,          \* how the n-th request sent to the API ends
    sn_pc,            \* search_news: "idle", "try", "sleep", "done"
    sn_retry_count,   \* search_news: the local retry_count
    sn_attempts,      \* search_news: how each request sent so far ended
    sn_response,      \* search_news: what the call returned
    sn_waits,         \* search_news: number of time.sleep calls made
    ppc,              \* scraper.py main: "idle", "loop", "collect", "done"
    total_results_needed,  \* scraper.py main: its parameter
    aggregated_results,    \* scraper.py main: the metas collected so far
    current_page_token,    \* scraper.py main: the token of the next call
    pagination_attempt,    \* scraper.py main: the local of that name
    searches,         \* scraper.py main: the calls of search made so far
    returned          \* scraper.py main: what it returned

vars == <<call, cpc, fetched, result, pc, urls, i, grouped_articles, k,
          files, files0, lastSave, prevSave, nSaves, saveFault,
          raw, norm, renorm, npc, wpc, wbatch, wexisting,
          args, spc, retry_count, attempts, response, waits,
          pattern, sn_pc, sn_retry_count, sn_attempts, sn_response, sn_waits,
          ppc, total_results_needed, aggregated_results, current_page_token,
          pagination_attempt, searches, returned>>

extractVars == <<call, cpc, fetched, result>>
mainVars == <<pc, urls, i, grouped_articles, k>>
saveVars == <<files, files0, lastSave, prevSave, nSaves, saveFault>>
normVars == <<raw, norm, renorm, npc>>
concVars == <<wpc, wbatch, wexisting>>
searchVars == <<args, spc, retry_count, attempts, response, waits>>
newsVars == <<pattern, sn_pc, sn_retry_count, sn_attempts, sn_response, sn_waits>>
pageVars == <<ppc, total_results_needed, aggregated_results, current_page_token,
              pagination_attempt, searches, returned>>
restVars == <<normVars, concVars, searchVars, newsVars, pageVars>>

\* ------------------------------------------------------- bounded inputs
\* scrape_article is called on one URL of every host.
CallUrls == {Url(h, 1) : h \in Hosts}

\* The URLs a batch is made of: two of one mapped source, one unmapped.
BatchUrls == { Url("economictimes.indiatimes.com", 1),
               Url("economictimes.indiatimes.com", 2),
               Url("example.com", 1) }
BatchSources == {infer_source_name(u) : u \in BatchUrls}

\* A batch holds at most MaxUrls urls (repetitions allowed).
MaxUrls == 2

UrlLists == UNION {[1..n -> BatchUrls] : n \in 0..MaxUrls}

\* The pages a batch run may be served.
BatchDocs ==
    { d \in Docs : /\ d.divs = <<>>
                   /\ d.relParas = <<>>
                   /\ Cardinality({s \in ProbeSelectors : d.sel[s] # NoMatch}) <= 1 }
BatchFetches == {FetchNone} \cup {FetchPage(d) : d \in BatchDocs}

\* An article saved by an earlier run.
OldArticle(source) ==
    Article(CHOOSE u \in BatchUrls : infer_source_name(u) = source /\ u.n = 1,
            source, Normalize(TLong))

\* The files a run may find: absent, unparsable, or holding one article.
StartFiles ==
    [BatchSources -> {FileMissing, FileCorrupt}]
    \cup { [s \in BatchSources |-> FileOf(<<OldArticle(s)>>)] }
    \cup { [s \in BatchSources |->
              IF s = "Economic Times" THEN FileOf(<<OldArticle(s)>>) ELSE FileMissing] }

NoCall == [url |-> Url("", 0), source |-> ""]
NoResult == [outcome |-> "none", article |-> Article(Url("", 0), "", EMPTY), trace |-> <<>>]
NoSave == [source |-> "", articles |-> <<>>, before |-> FileMissing,
           after |-> FileMissing, wrote |-> FALSE, inserted |-> 0]

ExtractIdle == cpc = "idle" /\ call = NoCall /\ fetched = FetchNone /\ result = NoResult
MainIdle == pc = "idle" /\ urls = <<>> /\ i = 0 /\ grouped_articles = <<>> /\ k = 0
NoFault == [source |-> "", articles |-> <<>>, how |-> "none", outcome |-> "none",
            before |-> FileMissing, after |-> FileMissing]

SaveIdle == lastSave = NoSave /\ prevSave = NoSave /\ nSaves = 0 /\ saveFault = NoFault
NormIdle == raw = <<>> /\ norm = <<>> /\ renorm = <<>> /\ npc = "idle"

\* Two workers, as two runs of new.py started side by side.
Workers == {1, 2}
ConcIdle ==
    /\ wpc = [w \in Workers |-> "idle"]
    /\ wbatch = [w \in Workers |-> <<>>]
    /\ wexisting = [w \in Workers |-> <<>>]

NoArgs == [project_id |-> "", location |-> "", engine_id |-> "", api_key |-> "",
           search_query |-> "", page_token |-> ""]
NoResponse == [kind |-> "pending", n |-> 0]
SearchIdle ==
    /\ args = NoArgs
    /\ spc = "idle"
    /\ retry_count = 0
    /\ attempts = <<>>
    /\ response = NoResponse
    /\ waits = 0

NewsIdle ==
    /\ pattern = <<>>
    /\ sn_pc = "idle"
    /\ sn_retry_count = 0
    /\ sn_attempts = <<>>
    /\ sn_response = NoResponse
    /\ sn_waits = 0

NotReturned == [kind |-> "pending", results |-> <<>>]
PageIdle ==
    /\ ppc = "idle"
    /\ total_results_needed = 0
    /\ aggregated_results = <<>>
    /\ current_page_token = 0
    /\ pagination_attempt = 0
    /\ searches = <<>>
    /\ returned = NotReturned

RestIdle == NormIdle /\ ConcIdle /\ SearchIdle /\ NewsIdle /\ PageIdle

\* --------------------------------------------------------- scrape_article
\* A call scrape_article(url, source) with source = infer_source_name(url),
\* as main makes it.
InitExtract ==
    /\ \E u \in CallUrls : call = [url |-> u, source |-> infer_source_name(u)]
    /\ cpc = "ready"
    /\ fetched = FetchNone
    /\ result = NoResult
    /\ MainIdle
    /\ SaveIdle
    /\ RestIdle
    /\ files = [s \in BatchSources |-> FileMissing]
    /\ files0 = files

\* The whole call: the fetch, the lookup of the extraction function, its run.
ScrapeArticle ==
    /\ cpc = "ready"
    /\ \E f \in Fetches :
          /\ fetched' = f
          /\ result' = scrape_article(call.url, call.source, f)
    /\ cpc' = "done"
    /\ UNCHANGED <<call, mainVars, saveVars, restVars>>

NextExtract == ScrapeArticle

SpecExtract == InitExtract /\ [][NextExtract]_vars

\* ------------------------------------------------------------------ main
\* grouped_articles.setdefault(source, []).append(article)
GroupAppend(g, source, article) ==
    IF \E j \in 1..Len(g) : g[j].source = source
    THEN [j \in 1..Len(g) |->
            IF g[j].source = source
            THEN [g[j] EXCEPT !.articles = Append(@, article)]
            ELSE g[j]]
    ELSE Append(g, [source |-> source, articles |-> <<article>>])

\* A loop that goes on to the saves after each url.
LoopPcSavesEarly(n, list) == "save"

\* Where main stands once n urls are processed and m groups are saved.
LoopPc(n, list) == IF n < Len(list) THEN "scrape" ELSE "save"
SavePc(m, g) == IF m < Len(g) THEN "save" ELSE "done"

Init ==
    /\ pc = "start"
    /\ urls = <<>>
    /\ i = 0
    /\ grouped_articles = <<>>
    /\ k = 0
    /\ files \in StartFiles
    /\ files0 = files
    /\ SaveIdle
    /\ ExtractIdle
    /\ RestIdle

\* main lines 667-670: search_results.json is read; its urls are the batch.
LoadUrls ==
    /\ pc = "start"
    /\ \E list \in UrlLists :
          /\ urls' = list
          /\ pc' = IF list = <<>> THEN "done" ELSE "scrape"
    /\ UNCHANGED <<i, grouped_articles, k, extractVars, saveVars, restVars>>

\* main lines 671-673: reading search_results.json fails; main returns.
LoadFails ==
    /\ pc = "start"
    /\ pc' = "done"
    /\ UNCHANGED <<urls, i, grouped_articles, k, extractVars, saveVars, restVars>>

\* One pass of the loop of main lines 676-681 that completes.
ProcessUrl ==
    /\ pc = "scrape"
    /\ i < Len(urls)
    /\ \E f \in BatchFetches :
          LET url == urls[i + 1]
              source == infer_source_name(url)
              r == scrape_article(url, source, f)
          IN  /\ r.outcome = "return"
              /\ grouped_articles' = GroupAppend(grouped_articles, source, r.article)
    /\ i' = i + 1
    /\ pc' = LoopPc(i + 1, urls)
    /\ UNCHANGED <<urls, k, extractVars, saveVars, restVars>>

\* One pass of that loop in which scrape_article raises: nothing in main
\* catches it, main ends.
ProcessUrlRaises ==
    /\ pc = "scrape"
    /\ i < Len(urls)
    /\ \E f \in BatchFetches :
          scrape_article(urls[i + 1], infer_source_name(urls[i + 1]), f).outcome = "raise"
    /\ pc' = "raised"
    /\ UNCHANGED <<urls, i, grouped_articles, k, extractVars, saveVars, restVars>>

\* A save_to_json call and its bookkeeping.
DoSave(articles, source) ==
    LET r == save_to_json(articles, source, files)
    IN  /\ files' = r.files
        /\ prevSave' = lastSave
        /\ lastSave' = [source |-> source, articles |-> articles,
                        before |-> files[source], after |-> r.files[source],
                        wrote |-> r.wrote, inserted |-> r.inserted]
        /\ nSaves' = nSaves + 1
        /\ UNCHANGED <<files0, saveFault>>

\* A save_to_json call, attempted with new articles, whose write fails.
DoSaveFails(articles, source, how) ==
    LET r == save_to_json_write_fails(articles, source, files, how)
    IN  /\ NewArticles(articles, LoadExisting(files[source])) # <<>>
        /\ files' = r.files
        /\ saveFault' = [source |-> source, articles |-> articles, how |-> how,
                         outcome |-> r.outcome, before |-> files[source],
                         after |-> r.files[source]]
        /\ UNCHANGED <<files0, lastSave, prevSave, nSaves>>

\* One pass of the loop of main lines 683-684 in which the write fails:
\* nothing in main catches the error, main ends.
SaveGroupFails ==
    /\ pc = "save"
    /\ k < Len(grouped_articles)
    /\ \E how \in WriteFaults :
          DoSaveFails(grouped_articles[k + 1].articles, grouped_articles[k + 1].source, how)
    /\ pc' = "raised"
    /\ UNCHANGED <<urls, i, grouped_articles, k, extractVars, restVars>>

\* One pass of the loop of main lines 683-684.
SaveGroup ==
    /\ pc = "save"
    /\ k < Len(grouped_articles)
    /\ DoSave(grouped_articles[k + 1].articles, grouped_articles[k + 1].source)
    /\ k' = k + 1
    /\ pc' = SavePc(k + 1, grouped_articles)
    /\ UNCHANGED <<urls, i, grouped_articles, extractVars, restVars>>

Next ==
    \/ LoadUrls \/ LoadFails \/ ProcessUrl \/ ProcessUrlRaises
    \/ SaveGroup \/ SaveGroupFails

Spec == Init /\ [][Next]_vars

\* ------------------------------------------- save_to_json, called freely
\* The articles batches are made of: two urls, each with two contents.
SaveSource == "Economic Times"
SaveArticles ==
    { Article(u, SaveSource, c) :
        u \in {v \in BatchUrls : infer_source_name(v) = SaveSource},
        c \in {EMPTY, Normalize(T201)} }

\* A batch holds at most MaxBatch articles (repetitions allowed).
MaxBatch == 2
Batches == UNION {[1..n -> SaveArticles] : n \in 0..MaxBatch}

\* A batch in which no URL comes twice.
NoRepeat(b) == \A x, y \in 1..Len(b) : x # y => b[x].url # b[y].url

\* At most MaxSaves calls in a row.
MaxSaves == 2

InitSave ==
    /\ files \in StartFiles
    /\ files0 = files
    /\ SaveIdle
    /\ MainIdle
    /\ ExtractIdle
    /\ RestIdle

\* The caller goes on to the next call unless the last one raised.
SaveCall ==
    /\ nSaves < MaxSaves
    /\ saveFault.outcome # "raise"
    /\ \E b \in Batches : DoSave(b, SaveSource)
    /\ UNCHANGED <<mainVars, extractVars, restVars>>

SaveCallFails ==
    /\ nSaves < MaxSaves
    /\ saveFault = NoFault
    /\ \E b \in Batches, how \in WriteFaults : DoSaveFails(b, SaveSource, how)
    /\ UNCHANGED <<mainVars, extractVars, restVars>>

NextSave == SaveCall \/ SaveCallFails

SpecSave == InitSave /\ [][NextSave]_vars

\* ------------------------------------------------------------ normaliser
\* The texts the normaliser is tried on: every text of at most MaxTokens
\* pieces, a piece being a word, one blank, a run of two blanks, a line
\* break, a footer phrase, or one of the two words of "log in".
MaxTokens == 4
NormTokens == {W(3, 1), S(1), S(2), NL, FOOT(9), FOOT1, FOOT2}
NormTexts == UNION {[1..n -> NormTokens] : n \in 0..MaxTokens}

InitNorm ==
    /\ raw \in NormTexts
    /\ norm = <<>>
    /\ renorm = <<>>
    /\ npc = "ready"
    /\ ExtractIdle
    /\ MainIdle
    /\ SaveIdle
    /\ ConcIdle
    /\ SearchIdle
    /\ NewsIdle
    /\ PageIdle
    /\ files = [s \in BatchSources |-> FileMissing]
    /\ files0 = files

\* text = clean_text(...); text = remove_footer_lines(text)
NormalizeOnce ==
    /\ npc = "ready"
    /\ norm' = Normalize(raw)
    /\ npc' = "once"
    /\ UNCHANGED <<raw, renorm, extractVars, mainVars, saveVars, concVars, searchVars, newsVars, pageVars>>

\* The same two calls on the text they gave.
NormalizeAgain ==
    /\ npc = "once"
    /\ renorm' = Normalize(norm)
    /\ npc' = "twice"
    /\ UNCHANGED <<raw, norm, extractVars, mainVars, saveVars, concVars, searchVars, newsVars, pageVars>>

NextNorm == NormalizeOnce \/ NormalizeAgain

SpecNorm == InitNorm /\ [][NextNorm]_vars

\* ------------------------------------------------- two runs, one source
\* Two workers call save_to_json for the same source, each with a batch that
\* holds no URL twice.  The call is taken in the steps the file system sees:
\* the read (lines 621-630), open(filename, "w") which truncates the file
\* (line 633), and json.dump with the close that follows (line 634).
ConcBatches == {b \in Batches : NoRepeat(b)}

\* A worker's call can be cut short before each of these steps.
ConcLive == {"start", "merge", "opened"}

InitConc ==
    /\ files \in StartFiles
    /\ files0 = files
    /\ wbatch \in [Workers -> ConcBatches]
    /\ wpc = [w \in Workers |-> "start"]
    /\ wexisting = [w \in Workers |-> <<>>]
    /\ lastSave = NoSave /\ prevSave = NoSave /\ nSaves = 0 /\ saveFault = NoFault
    /\ MainIdle
    /\ ExtractIdle
    /\ NormIdle
    /\ SearchIdle
    /\ NewsIdle
    /\ PageIdle

\* Lines 621-632: the file is read, new_articles is computed; without new
\* articles the call returns, otherwise existing.extend(new_articles).
ConcRead(w) ==
    /\ wpc[w] = "start"
    /\ LET existing == LoadExisting(files[SaveSource])
           new_articles == NewArticles(wbatch[w], existing)
       IN  IF new_articles # <<>>
           THEN /\ wexisting' = [wexisting EXCEPT ![w] = existing \o new_articles]
                /\ wpc' = [wpc EXCEPT ![w] = "merge"]
           ELSE /\ wpc' = [wpc EXCEPT ![w] = "done"]
                /\ UNCHANGED wexisting
    /\ UNCHANGED <<wbatch, saveVars, mainVars, extractVars, normVars, searchVars, newsVars, pageVars>>

\* Line 633: open(filename, "w") truncates the file.
ConcOpen(w) ==
    /\ wpc[w] = "merge"
    /\ files' = [files EXCEPT ![SaveSource] = FilePartial]
    /\ wpc' = [wpc EXCEPT ![w] = "opened"]
    /\ UNCHANGED <<wbatch, wexisting, files0, lastSave, prevSave, nSaves, saveFault,
                   mainVars, extractVars, normVars, searchVars, newsVars, pageVars>>

\* Line 634 and the end of the with block: the list in memory is written out.
ConcDump(w) ==
    /\ wpc[w] = "opened"
    /\ files' = [files EXCEPT ![SaveSource] = FileOf(wexisting[w])]
    /\ wpc' = [wpc EXCEPT ![w] = "done"]
    /\ UNCHANGED <<wbatch, wexisting, files0, lastSave, prevSave, nSaves, saveFault,
                   mainVars, extractVars, normVars, searchVars, newsVars, pageVars>>

\* The process of a worker is killed or cancelled where it stands.
ConcInterrupt(w) ==
    /\ wpc[w] \in ConcLive
    /\ wpc' = [wpc EXCEPT ![w] = "interrupted"]
    /\ UNCHANGED <<wbatch, wexisting, saveVars, mainVars, extractVars, normVars,
                   searchVars, newsVars, pageVars>>

NextConc ==
    \E w \in Workers : ConcRead(w) \/ ConcOpen(w) \/ ConcDump(w) \/ ConcInterrupt(w)

SpecConc == InitConc /\ [][NextConc]_vars

\* ---------------------------------------------------------------- search
\* search() of scraper.py; scraper_01.py holds the same function word for word.
MAX_RETRIES == 5

\* None, and the response of the n-th request.
None == [kind |-> "None", n |-> 0]
Response(n) == [kind |-> "response", n |-> n]

\* The calls: every required parameter given or left empty, with or without
\* a page token.
SearchArgs ==
    [project_id : {"", "855529056135"}, location : {"", "global"},
     engine_id : {"", "news-scraper"}, api_key : {"", "key"},
     search_query : {"", "acme Warehouse"}, page_token : {"", "token"}]

\* all([project_id, location, engine_id, api_key, search_query])
AllGiven(a) ==
    /\ a.project_id # ""
    /\ a.location # ""
    /\ a.engine_id # ""
    /\ a.api_key # ""
    /\ a.search_query # ""

\* The handler that stops one failure too early.
GivesUpEarly(n) == ~(n < MAX_RETRIES)

\* The else branch of "if retry_count <= MAX_RETRIES" in the handler.
GivesUp(n) == ~(n <= MAX_RETRIES)

InitSearch ==
    /\ args \in SearchArgs
    /\ spc = "call"
    /\ retry_count = 0
    /\ attempts = <<>>
    /\ response = NoResponse
    /\ waits = 0
    /\ NewsIdle
    /\ PageIdle
    /\ ExtractIdle
    /\ MainIdle
    /\ SaveIdle
    /\ NormIdle
    /\ ConcIdle
    /\ files = [s \in BatchSources |-> FileMissing]
    /\ files0 = files

\* Lines 30-39: a missing parameter ends the call with None; otherwise
\* retry_count = 0 and the loop is entered.
SearchEnter ==
    /\ spc = "call"
    /\ IF AllGiven(args)
       THEN spc' = "try" /\ response' = response
       ELSE spc' = "done" /\ response' = None
    /\ UNCHANGED <<args, retry_count, attempts, waits>>
    /\ UNCHANGED <<extractVars, mainVars, saveVars, normVars, concVars, newsVars, pageVars>>

\* Lines 40-64: the loop condition holds, the request is sent and answered.
SearchSucceeds ==
    /\ spc = "try"
    /\ retry_count <= MAX_RETRIES
    /\ attempts' = Append(attempts, "ok")
    /\ response' = Response(Len(attempts) + 1)
    /\ spc' = "done"
    /\ UNCHANGED <<args, retry_count, waits>>
    /\ UNCHANGED <<extractVars, mainVars, saveVars, normVars, concVars, newsVars, pageVars>>

\* Lines 40-62 and 66-74: the request raises; retry_count grows, and the
\* handler sleeps or gives up with None.
SearchFails ==
    /\ spc = "try"
    /\ retry_count <= MAX_RETRIES
    /\ attempts' = Append(attempts, "fail")
    /\ retry_count' = retry_count + 1
    /\ IF GivesUp(retry_count + 1)
       THEN spc' = "done" /\ response' = None /\ waits' = waits
       ELSE spc' = "sleep" /\ response' = response /\ waits' = waits + 1
    /\ UNCHANGED args
    /\ UNCHANGED <<extractVars, mainVars, saveVars, normVars, concVars, newsVars, pageVars>>

\* Line 71 and back to line 40: after time.sleep the loop condition is
\* tested; a loop that ends falls off the function, which returns None.
SearchSleep ==
    /\ spc = "sleep"
    /\ IF retry_count <= MAX_RETRIES
       THEN spc' = "try" /\ response' = response
       ELSE spc' = "done" /\ response' = None
    /\ UNCHANGED <<args, retry_count, attempts, waits>>
    /\ UNCHANGED <<extractVars, mainVars, saveVars, normVars, concVars, newsVars, pageVars>>

NextSearch == SearchEnter \/ SearchSucceeds \/ SearchFails \/ SearchSleep

\* Every step of search returns or raises in finite time: the call goes on
\* while it has a step to take.
SpecSearch == InitSearch /\ [][NextSearch]_vars /\ WF_vars(NextSearch)

\* ----------------------------------------------------------- search_news
\* search_news() of scraper_02.py and search() of scraper.py, each run
\* against the same API: pattern[n] is how the n-th request of a call ends.
PatternLen == 7
Patterns == [1..PatternLen -> {"ok", "fail"}]

\* The calls of both functions are made with these parameters.
RetryArgs == [project_id |-> "855529056135", location |-> "global",
              engine_id |-> "news-scraper", api_key |-> "key",
              search_query |-> "acme Warehouse", page_token |-> ""]

\* A loop that stops one round early.
NewsLoopsShort(n) == n < MAX_RETRIES

\* while retry_count <= MAX_RETRIES
NewsLoops(n) == n <= MAX_RETRIES

InitRetry ==
    /\ pattern \in Patterns
    /\ args = RetryArgs
    /\ spc = "call"
    /\ retry_count = 0
    /\ attempts = <<>>
    /\ response = NoResponse
    /\ waits = 0
    /\ sn_pc = "try"
    /\ sn_retry_count = 0
    /\ sn_attempts = <<>>
    /\ sn_response = NoResponse
    /\ sn_waits = 0
    /\ PageIdle
    /\ ExtractIdle
    /\ MainIdle
    /\ SaveIdle
    /\ NormIdle
    /\ ConcIdle
    /\ files = [s \in BatchSources |-> FileMissing]
    /\ files0 = files

\* The requests search has sent ended as the API decided.
FollowsPattern == \A j \in 1..Len(attempts') : attempts'[j] = pattern[j]

\* A step of search against that API.
RetrySearchStep ==
    /\ SearchEnter \/ SearchSucceeds \/ SearchFails \/ SearchSleep
    /\ FollowsPattern

\* Lines 47-50: the loop condition holds, the request is sent and answered.
NewsSucceeds ==
    /\ sn_pc = "try"
    /\ NewsLoops(sn_retry_count)
    /\ pattern[Len(sn_attempts) + 1] = "ok"
    /\ sn_attempts' = Append(sn_attempts, "ok")
    /\ sn_response' = Response(Len(sn_attempts) + 1)
    /\ sn_pc' = "done"
    /\ UNCHANGED <<pattern, sn_retry_count, sn_waits>>
    /\ UNCHANGED <<extractVars, mainVars, saveVars, normVars, concVars, searchVars, pageVars>>

\* Lines 47-54: the request raises; retry_count grows and time.sleep is
\* called, whatever the count.
NewsFails ==
    /\ sn_pc = "try"
    /\ NewsLoops(sn_retry_count)
    /\ pattern[Len(sn_attempts) + 1] = "fail"
    /\ sn_attempts' = Append(sn_attempts, "fail")
    /\ sn_retry_count' = sn_retry_count + 1
    /\ sn_waits' = sn_waits + 1
    /\ sn_pc' = "sleep"
    /\ UNCHANGED <<pattern, sn_response>>
    /\ UNCHANGED <<extractVars, mainVars, saveVars, normVars, concVars, searchVars, pageVars>>

\* Lines 54, 47 and 55: after time.sleep the loop condition is tested; a
\* loop that ends is followed by return None.
NewsSleep ==
    /\ sn_pc = "sleep"
    /\ IF NewsLoops(sn_retry_count)
       THEN sn_pc' = "try" /\ sn_response' = sn_response
       ELSE sn_pc' = "done" /\ sn_response' = None
    /\ UNCHANGED <<pattern, sn_retry_count, sn_attempts, sn_waits>>
    /\ UNCHANGED <<extractVars, mainVars, saveVars, normVars, concVars, searchVars, pageVars>>

NextRetry == RetrySearchStep \/ NewsSucceeds \/ NewsFails \/ NewsSleep

SpecRetry == InitRetry /\ [][NextRetry]_vars

\* ------------------------------------------------------ scraper.py main
\* main() of scraper.py; the loop of main() of scraper_01.py is the same
\* with one date field.  pages_metadata is only counted in a print and is
\* left out.
max_pagination_attempts == 10

\* A value of a tag: what it is and the search result it stands in; None.
V(what, id) == [what |-> what, of |-> id]
NoneVal == [what |-> "None", of |-> 0]

\* a or b
Or(a, b) == IF a # NoneVal THEN a ELSE b

\* urlparse(tags["og:url"]).netloc
Netloc(url) == [what |-> "netloc", of |-> url.of]

\* A search result: derived_struct_data with or without pagemap, metatags,
\* each tag, a jsonld date and a date of the document itself.
Result(id, pagemap, metatags, og_title, title, og_description, twitter_description, published_time, og_site_name, og_url, jsonld_date, data_date) ==
    [id |-> id, pagemap |-> pagemap, metatags |-> metatags,
     og_title |-> og_title, title |-> title, og_description |-> og_description,
     twitter_description |-> twitter_description, published_time |-> published_time,
     og_site_name |-> og_site_name, og_url |-> og_url,
     jsonld_date |-> jsonld_date, data_date |-> data_date]

\* Lines 198-281: the meta of one result.
Meta(r) ==
    LET tags == r.pagemap /\ r.metatags
        title == IF tags THEN Or(r.og_title, r.title) ELSE NoneVal
        description ==
            IF tags THEN Or(r.og_description, r.twitter_description) ELSE NoneVal
        date0 == IF tags THEN r.published_time ELSE NoneVal
        source0 == IF tags THEN r.og_site_name ELSE NoneVal
        source == IF tags /\ source0 = NoneVal /\ r.og_url # NoneVal
                  THEN Netloc(r.og_url) ELSE source0
        date1 == IF r.pagemap THEN Or(date0, r.jsonld_date) ELSE date0
        date == IF r.pagemap THEN Or(date1, r.data_date) ELSE date1
    IN  [title |-> title, description |-> description,
         date_published |-> date, source |-> source]

\* any(meta.values())
AnyValue(meta) ==
    \/ meta.title # NoneVal
    \/ meta.description # NoneVal
    \/ meta.date_published # NoneVal
    \/ meta.source # NoneVal

\* Lines 197-287: for result in response.results, with its break.
RECURSIVE Collect(_, _, _, _)
Collect(results, j, agg, needed) ==
    IF j > Len(results) THEN agg
    ELSE LET meta == Meta(results[j])
             agg2 == IF AnyValue(meta) THEN Append(agg, meta) ELSE agg
         IN  IF Len(agg2) >= needed THEN agg2
             ELSE Collect(results, j + 1, agg2, needed)

\* [r[field] for r in aggregated_results if r.get(field)]
RECURSIVE Column(_, _)
Column(agg, field) ==
    IF agg = <<>> THEN <<>>
    ELSE IF Head(agg)[field] # NoneVal
         THEN <<Head(agg)[field]>> \o Column(Tail(agg), field)
         ELSE Column(Tail(agg), field)

Max2(a, b) == IF a >= b THEN a ELSE b
At(list, n) == IF n <= Len(list) THEN list[n] ELSE NoneVal

\* Lines 295-320: the four columns, put side by side by position.
structured_results(agg) ==
    LET titles == Column(agg, "title")
        descriptions == Column(agg, "description")
        dates == Column(agg, "date_published")
        sources == Column(agg, "source")
        max_length == Max2(Max2(Len(titles), Len(descriptions)),
                           Max2(Len(dates), Len(sources)))
    IN  [n \in 1..max_length |->
            [title |-> At(titles, n), description |-> At(descriptions, n),
             date_published |-> At(dates, n), source |-> At(sources, n)]]

\* Lines 289-292, the token of the next call.
next_token_stale(resp_token) == 0
next_token(resp_token) == resp_token

\* The search results the API serves: one with every field; one without a
\* title, with a jsonld date and an og:url for a source; one with a title
\* only; one without pagemap; one with pagemap, no metatags, and a date of
\* the document.
PageResults ==
    { Result(1, TRUE, TRUE, V("og:title", 1), NoneVal, V("og:description", 1), NoneVal,
             V("article:published_time", 1), V("og:site_name", 1), NoneVal,
             NoneVal, NoneVal),
      Result(2, TRUE, TRUE, NoneVal, NoneVal, NoneVal, V("twitter:description", 2),
             NoneVal, NoneVal, V("og:url", 2), V("datePublished", 2), NoneVal),
      Result(3, TRUE, TRUE, NoneVal, V("title", 3), NoneVal, NoneVal,
             NoneVal, NoneVal, NoneVal, NoneVal, NoneVal),
      Result(4, FALSE, FALSE, NoneVal, NoneVal, NoneVal, NoneVal,
             NoneVal, NoneVal, NoneVal, NoneVal, V("date", 4)),
      Result(5, TRUE, FALSE, NoneVal, NoneVal, NoneVal, NoneVal,
             NoneVal, NoneVal, NoneVal, NoneVal, V("date", 5)) }

\* A page holds at most MaxPageResults results; main is asked for at most
\* MaxNeeded.
MaxPageResults == 2
MaxNeeded == 2
ResultLists == UNION {[1..n -> PageResults] : n \in 0..MaxPageResults}

InitPage ==
    /\ ppc = "loop"
    /\ total_results_needed \in 0..MaxNeeded
    /\ aggregated_results = <<>>
    /\ current_page_token = 0
    /\ pagination_attempt = 0
    /\ searches = <<>>
    /\ returned = NotReturned
    /\ ExtractIdle
    /\ MainIdle
    /\ SaveIdle
    /\ NormIdle
    /\ ConcIdle
    /\ SearchIdle
    /\ NewsIdle
    /\ files = [s \in BatchSources |-> FileMissing]
    /\ files0 = files

\* Lines 175-178: the condition of the while loop.
PageLoops ==
    /\ Len(aggregated_results) < total_results_needed
    /\ pagination_attempt < max_pagination_attempts

\* One round of the loop in which search returns a response (lines 179-292).
\* The response of the n-th call carries the token n, or none.
PageSearch ==
    /\ ppc = "loop"
    /\ PageLoops
    /\ \E results \in ResultLists, more \in BOOLEAN :
          LET token == IF more THEN pagination_attempt + 1 ELSE 0
          IN  /\ aggregated_results' =
                    Collect(results, 1, aggregated_results, total_results_needed)
              /\ searches' = Append(searches, [token |-> current_page_token,
                                               kind |-> "response", next |-> token])
              /\ IF token # 0
                 THEN current_page_token' = next_token(token) /\ ppc' = "loop"
                 ELSE current_page_token' = current_page_token /\ ppc' = "collect"
    /\ pagination_attempt' = pagination_attempt + 1
    /\ UNCHANGED <<total_results_needed, returned>>
    /\ UNCHANGED <<extractVars, mainVars, saveVars, normVars, concVars, searchVars, newsVars>>

\* One round in which search returns None (lines 179-188): break.
PageSearchNone ==
    /\ ppc = "loop"
    /\ PageLoops
    /\ pagination_attempt' = pagination_attempt + 1
    /\ searches' = Append(searches, [token |-> current_page_token,
                                     kind |-> "None", next |-> 0])
    /\ ppc' = "collect"
    /\ UNCHANGED <<total_results_needed, aggregated_results, current_page_token, returned>>
    /\ UNCHANGED <<extractVars, mainVars, saveVars, normVars, concVars, searchVars, newsVars>>

\* The condition of the loop fails.
PageLoopEnds ==
    /\ ppc = "loop"
    /\ ~PageLoops
    /\ ppc' = "collect"
    /\ UNCHANGED <<total_results_needed, aggregated_results, current_page_token,
                   pagination_attempt, searches, returned>>
    /\ UNCHANGED <<extractVars, mainVars, saveVars, normVars, concVars, searchVars, newsVars>>

\* Lines 294-330: None without results, the structured results otherwise.
PageReturn ==
    /\ ppc = "collect"
    /\ returned' = IF aggregated_results = <<>>
                   THEN [kind |-> "None", results |-> <<>>]
                   ELSE [kind |-> "dict",
                         results |-> structured_results(aggregated_results)]
    /\ ppc' = "done"
    /\ UNCHANGED <<total_results_needed, aggregated_results, current_page_token,
                   pagination_attempt, searches>>
    /\ UNCHANGED <<extractVars, mainVars, saveVars, normVars, concVars, searchVars, newsVars>>

NextPage == PageSearch \/ PageSearchNone \/ PageLoopEnds \/ PageReturn

\* search returns (C20) and every other step of main is finite: main goes on
\* while it has a step to take.
SpecPage == InitPage /\ [][NextPage]_vars /\ WF_vars(NextPage)

\* ================================================================ claims
\* What the claims speak of, said without the extraction functions.

\* The profile of a source: the selectors its extraction function lists.
ProfileOf(source) ==
    CASE source = "PR Newswire" -> pr_newswire_selectors
      [] source = "Economic Times" -> economic_times_selectors
      [] source = "LiveMint" -> livemint_selectors
      [] source = "The Hindu" -> thehindu_selectors
      [] source = "Zee News" -> zee_news_selectors
      [] source = "Hindustan Times" -> hindustan_times_selectors
      [] source = "India Today" -> india_today_selectors
      [] source = "India TV News" -> india_tv_news_selectors
      [] source = "Times of India" -> times_of_india_selectors
      [] source = "ET Now" -> et_now_selectors
      [] source = "Indian Express" -> indian_express_selectors
      [] source = "News18" -> news18_selectors
      [] source = "Business Standard" -> business_standard_selectors
      [] source = "Deccan Herald" -> deccan_herald_selectors
      [] source = "Firstpost" -> firstpost_selectors
      [] source = "The Print" -> the_print_selectors
      [] source = "The Wire" -> the_wire_selectors
      [] source = "Moneycontrol" -> moneycontrol_selectors
      [] source = "Free Press Journal" -> free_press_journal_selectors
      [] OTHER -> <<>>

\* The first match of the profile's j-th selector on the fetched page.
Hit(j) == SelectOne(fetched.page, ProfileOf(call.source)[j])

\* That selector's first match yields more than 200 normalised characters.
Yields(j) ==
    /\ Hit(j).st = "found"
    /\ TextLen(remove_footer_lines(clean_text(Hit(j).text))) > 200

FirstYield(j) == Yields(j) /\ \A h \in 1..(j - 1) : ~Yields(h)

Extracted == cpc = "done" /\ fetched.ok

\* C1: whenever extraction returns on a page on which some profile selector
\* yields more than 200 normalised characters, the content is the normalised
\* text of the first such selector in the listed order, and the strategies
\* evaluated are exactly the profile selectors up to and including that one
\* (no later selector, no fallback); and extraction does return there unless
\* an earlier selector's evaluation raised.
C1_ProfileOrder ==
    Extracted =>
        \A j \in 1..Len(ProfileOf(call.source)) :
            FirstYield(j) =>
                /\ result.outcome = "return" =>
                      /\ result.article.content =
                            remove_footer_lines(clean_text(Hit(j).text))
                      /\ result.trace = SubSeq(ProfileOf(call.source), 1, j)
                /\ (\A h \in 1..(j - 1) : Hit(h).st # "error") =>
                      result.outcome = "return"

\* C1 witness: a PR Newswire page matches div.release-body (201 normalised
\* characters) and the later, generic selector article (300); the result is
\* the text of div.release-body and article was never evaluated.
C1_Witness ==
    /\ Extracted
    /\ call.source = "PR Newswire"
    /\ fetched.page.sel["div.release-body"] = Found(T201)
    /\ fetched.page.sel["article"] = Found(TLong)
    /\ result.outcome = "return"
    /\ result.article.content = <<W(120, 2), SP, W(80, 4)>>
    /\ result.trace = <<"div.content-release", "div.release-body">>

\* The entries of a source's file that the present run added.
AddedByRun(s) ==
    { files[s].data[j] :
        j \in (Len(LoadExisting(files0[s])) + 1)..Len(LoadExisting(files[s])) }

\* C2: no entry that the run added to a source's collection has content that
\* is empty, the sentinel, or not longer than 200 characters.
C2_RejectedNeverPersisted ==
    \A s \in BatchSources :
        \A a \in AddedByRun(s) :
            /\ a.content # EMPTY
            /\ a.content # SENTINEL
            /\ TextLen(a.content) > 200

NoDuplicateUrl(list) ==
    \A a, b \in 1..Len(list) : a # b => list[a].url # list[b].url

\* C3: every collection, which began without duplicate URLs, holds no two
\* entries with the same URL after the merges of a batch run, also when the
\* batch holds a URL more than once.
C3_NoDuplicateUrls ==
    \A s \in BatchSources :
        NoDuplicateUrl(LoadExisting(files0[s])) => NoDuplicateUrl(LoadExisting(files[s]))

\* The collection a save_to_json call found and the one it left.
Before == LoadExisting(lastSave.before)
After == LoadExisting(lastSave.after)

\* The articles of the call's batch whose URL no existing entry has, in the
\* order of the batch.
RECURSIVE FreshOf(_, _)
FreshOf(batch, old) ==
    IF batch = <<>> THEN <<>>
    ELSE IF \E j \in 1..Len(old) : old[j].url = Head(batch).url
         THEN FreshOf(Tail(batch), old)
         ELSE <<Head(batch)>> \o FreshOf(Tail(batch), old)

\* C4: after a merge the existing entries stand unchanged at their positions,
\* and what follows them is exactly the batch articles whose URL was not
\* among the existing URLs, in batch order.
C4_MergeAppendsFresh ==
    nSaves > 0 =>
        /\ Len(After) >= Len(Before)
        /\ SubSeq(After, 1, Len(Before)) = Before
        /\ SubSeq(After, Len(Before) + 1, Len(After)) = FreshOf(lastSave.articles, Before)

\* C4 witness: a merge into a collection of one entry, of a batch holding an
\* article with that entry's URL and a new one; one entry was appended.
C4_Witness ==
    /\ nSaves > 0
    /\ Len(Before) = 1
    /\ Len(lastSave.articles) = 2
    /\ lastSave.articles[1].url = Before[1].url
    /\ lastSave.articles[1].content # Before[1].content
    /\ lastSave.inserted = 1
    /\ Len(After) = 2

\* C5: a merge of the batch that the previous merge into the same collection
\* was given inserts nothing and leaves the collection as that merge left it.
C5_MergeTwice ==
    (nSaves >= 2 /\ lastSave.articles = prevSave.articles
                 /\ lastSave.source = prevSave.source) =>
        /\ lastSave.inserted = 0
        /\ lastSave.before = prevSave.after
        /\ lastSave.after = prevSave.after

\* C5 witness: the same batch, with one URL twice, merged twice; the first
\* merge inserted both articles.
C5_Witness ==
    /\ nSaves = 2
    /\ lastSave.articles = prevSave.articles
    /\ Len(prevSave.articles) = 2
    /\ prevSave.articles[1].url = prevSave.articles[2].url
    /\ prevSave.inserted = 2
    /\ lastSave.inserted = 0

\* C6: a call whose batch holds no article with a URL absent from the
\* existing collection does not write and leaves the file as it was (absent
\* or unparsable included); any other call writes the whole file: the
\* existing entries followed by the new ones.
C6_WriteOnlyWhenNew ==
    nSaves > 0 =>
        IF FreshOf(lastSave.articles, Before) = <<>>
        THEN ~lastSave.wrote /\ lastSave.after = lastSave.before
        ELSE /\ lastSave.wrote
             /\ lastSave.after = FileOf(Before \o FreshOf(lastSave.articles, Before))

\* C6 witness: a call with a non-empty batch, all of whose URLs the
\* collection already held, wrote nothing.
C6_Witness ==
    /\ nSaves > 0
    /\ lastSave.articles # <<>>
    /\ Before # <<>>
    /\ ~lastSave.wrote
    /\ lastSave.after = lastSave.before

\* C7: the content scrape_article returns is empty exactly when the fetch
\* gave no page; for a fetched page it is the sentinel or a text of more
\* than 200 characters, and the sentinel is neither.
C7_ThreeOutcomes ==
    (cpc = "done" /\ result.outcome = "return") =>
        /\ result.article.content = EMPTY <=> ~fetched.ok
        /\ fetched.ok =>
              \/ result.article.content = SENTINEL
              \/ TextLen(result.article.content) > 200
        /\ ~(SENTINEL = EMPTY \/ TextLen(SENTINEL) > 200)

\* C7 witness: a fetched page with some text on it (a paragraph of 50
\* characters) on which every strategy fails: the sentinel is returned.
C7_Witness ==
    /\ cpc = "done"
    /\ fetched.ok
    /\ fetched.page.paras = <<TShort>>
    /\ result.outcome = "return"
    /\ result.article.content = SENTINEL

\* C8: main never ends on a URL's failure with URLs of the batch left
\* unprocessed and the save step not reached.
C8_BatchNeverAborts == ~(pc = "raised" /\ i < Len(urls))

\* C9: no error raised by the evaluation of a selector leaves the
\* extraction function: every call returns.
C9_SelectorErrorsCaught == cpc = "done" => result.outcome = "return"

\* C10: on a fetched page that matches no selector and has no div, whose
\* paragraphs joined by single blanks hold more than 200 normalised
\* characters, the content is that normalised paragraph text, whatever the
\* source.
C10_ParagraphAggregation ==
    ( /\ Extracted
      /\ \A s \in ProbeSelectors : fetched.page.sel[s] = NoMatch
      /\ fetched.page.divs = <<>>
      /\ TextLen(remove_footer_lines(clean_text(JoinSp(fetched.page.paras)))) > 200 ) =>
        /\ result.outcome = "return"
        /\ result.article.content =
              remove_footer_lines(clean_text(JoinSp(fetched.page.paras)))

\* C11: on a fetched page on which no selector matches, that has no div and
\* whose paragraphs fail the length check, but whose body text (script,
\* style, nav, header, footer and aside removed) holds more than 200
\* normalised characters, the content is that normalised body text.
C11_EmergencySalvage ==
    ( /\ Extracted
      /\ \A s \in ProbeSelectors : fetched.page.sel[s] = NoMatch
      /\ fetched.page.divs = <<>>
      /\ TextLen(remove_footer_lines(clean_text(JoinSp(fetched.page.paras)))) <= 200
      /\ TextLen(remove_footer_lines(clean_text(fetched.page.body))) > 200 ) =>
        /\ result.outcome = "return"
        /\ result.article.content = remove_footer_lines(clean_text(fetched.page.body))

\* No profile selector yields, and none raises, on the fetched page.
ProfileFails ==
    \A j \in 1..Len(ProfileOf(call.source)) : ~Yields(j) /\ Hit(j).st # "error"

\* The candidate of paragraph aggregation.
ParaCandidate == remove_footer_lines(clean_text(JoinSp(fetched.page.paras)))

\* The candidate of the paragraph fallback of scrape_pr_newswire.
RelCandidate == clean_text(JoinSp(StripEach(fetched.page.relParas)))

\* C12: the length check is strict at every strategy.  No call returns
\* content of exactly 200 characters.  A candidate of exactly 201 characters
\* is returned by the strategy that reaches it: the first profile selector
\* that matches; paragraph aggregation of scrape_generic and, past the
\* selectors and the divs, of scrape_livemint_enhanced; the largest-block
\* step of scrape_livemint_enhanced; the paragraph fallback of
\* scrape_pr_newswire.
C12_StrictBoundary ==
    (Extracted /\ result.outcome = "return") =>
        /\ TextLen(result.article.content) # 200
        /\ \A j \in 1..Len(ProfileOf(call.source)) :
              ( /\ Hit(j).st = "found"
                /\ TextLen(remove_footer_lines(clean_text(Hit(j).text))) = 201
                /\ \A h \in 1..(j - 1) : Hit(h).st = "none" ) =>
                  result.article.content = remove_footer_lines(clean_text(Hit(j).text))
        /\ ( /\ ProfileOf(call.source) = <<>> \/ call.source = "LiveMint"
             /\ ProfileFails
             /\ fetched.page.divs = <<>>
             /\ TextLen(ParaCandidate) = 201 ) =>
               result.article.content = ParaCandidate
        /\ ( /\ call.source = "LiveMint"
             /\ ProfileFails
             /\ fetched.page.divs = <<Found(T200), Found(T201)>> ) =>
               result.article.content = remove_footer_lines(clean_text(T201))
        /\ ( /\ call.source = "PR Newswire"
             /\ ProfileFails
             /\ TextLen(RelCandidate) = 201 ) =>
               result.article.content = RelCandidate

\* C12 witness: an Economic Times page whose div.artText holds exactly 200
\* normalised characters and whose div.Normal holds exactly 201: the first
\* is passed over, the second is returned.
C12_Witness ==
    /\ Extracted
    /\ call.source = "Economic Times"
    /\ fetched.page.sel["div.artText"] = Found(T200)
    /\ TextLen(remove_footer_lines(clean_text(T200))) = 200
    /\ fetched.page.sel["div.Normal"] = Found(T201)
    /\ result.outcome = "return"
    /\ TextLen(result.article.content) = 201
    /\ result.trace = <<"div.artText", "div.article_body", "div.Normal">>

\* The text left when the lines holding a footer phrase are taken out of the
\* text as extracted, line breaks still in place, and the whitespace of what
\* remains is collapsed: the remaining lines, in order, joined by blanks.
LineFiltered(text) == clean_text(remove_footer_lines(text))

\* C13: when the first match of the first profile selector is a text of
\* several lines of which the remaining ones, once the lines with a footer
\* phrase are dropped, hold more than 200 characters, the content returned is
\* those remaining lines in order joined by single blanks.
C13_FooterLineFiltering ==
    ( /\ Extracted
      /\ Len(ProfileOf(call.source)) > 0
      /\ Hit(1).st = "found"
      /\ TextLen(LineFiltered(Hit(1).text)) > 200 ) =>
        /\ result.outcome = "return"
        /\ result.article.content = LineFiltered(Hit(1).text)

\* C16: a call that finds the file absent or unparsable and is given a
\* non-empty batch returns, and the file then holds exactly the articles of
\* the batch, in batch order.
C16_UnreadableFileIsEmpty ==
    ( /\ nSaves > 0
      /\ lastSave.before.st \in {"missing", "corrupt"}
      /\ lastSave.articles # <<>> ) =>
        /\ lastSave.wrote
        /\ lastSave.inserted = Len(lastSave.articles)
        /\ lastSave.after = FileOf(lastSave.articles)

\* C16 witness: a batch of two articles saved over an unparsable file.
C16_Witness ==
    /\ nSaves > 0
    /\ lastSave.before = FileCorrupt
    /\ Len(lastSave.articles) = 2
    /\ lastSave.after = FileOf(lastSave.articles)

RegisteredSources ==
    { "PR Newswire", "Economic Times", "LiveMint", "The Hindu", "Zee News",
      "Hindustan Times", "India Today", "India TV News", "Times of India",
      "ET Now", "Indian Express", "News18", "Business Standard", "Deccan Herald",
      "Firstpost", "The Print", "The Wire", "Moneycontrol", "Free Press Journal" }

\* The extraction functions of new.py that the lookup may give.
ExtractionFunctions ==
    { "scrape_pr_newswire", "scrape_economic_times", "scrape_livemint",
      "scrape_thehindu", "scrape_zee_news", "scrape_hindustan_times",
      "scrape_india_today", "scrape_india_tv_news", "scrape_times_of_india",
      "scrape_et_now", "scrape_indian_express", "scrape_news18",
      "scrape_business_standard", "scrape_deccan_herald", "scrape_firstpost",
      "scrape_the_print", "scrape_the_wire", "scrape_moneycontrol",
      "scrape_free_press_journal", "scrape_generic" }

\* C18: for the source of every call the lookup gives an extraction
\* function.  For a registered source it is not the generic one, and the
\* function that ran began with the first selector of that source's profile;
\* for any other source it is scrape_generic, and what ran was paragraph
\* aggregation alone.
C18_LookupTotal ==
    Extracted =>
        /\ get_scraper_for_source(call.source) \in ExtractionFunctions
        /\ result.outcome \in {"return", "raise"}
        /\ IF call.source \in RegisteredSources
           THEN /\ get_scraper_for_source(call.source) # "scrape_generic"
                /\ result.trace # <<>>
                /\ result.trace[1] = ProfileOf(call.source)[1]
           ELSE /\ get_scraper_for_source(call.source) = "scrape_generic"
                /\ result.trace = <<"paragraphs">>

\* C18 witness: a call for the source of an unmapped host, example_org, ran
\* scrape_generic and returned its paragraph text.
C18_Witness ==
    /\ Extracted
    /\ call.source = "example_org"
    /\ call.source \notin RegisteredSources
    /\ result.trace = <<"paragraphs">>
    /\ result.outcome = "return"
    /\ TextLen(result.article.content) > 200

\* C19: the normaliser applied to a text it produced gives that text back.
C19_NormalizeIdempotent == npc = "twice" => renorm = norm

\* C19 witness: a text with a line break and a run of blanks was normalised
\* twice; the first pass changed it and left some text, and the second pass
\* had nothing left to change.
C19_Witness ==
    /\ npc = "twice"
    /\ \E j \in 1..Len(raw) : raw[j] = NL
    /\ \E j \in 1..Len(raw) : raw[j] = S(2)
    /\ norm # raw
    /\ norm # <<>>
    /\ renorm = norm

\* The collection the file of the source holds.
Persisted == LoadExisting(files[SaveSource])

\* C14: once both workers have returned from save_to_json for the same
\* source, the file holds no URL twice and holds the URL of every article of
\* both batches, however their steps interleaved.
C14_ConcurrentMerge ==
    (\A w \in Workers : wpc[w] = "done") =>
        /\ NoDuplicateUrl(Persisted)
        /\ \A w \in Workers : UrlSet(wbatch[w]) \subseteq UrlSet(Persisted)

\* What worker w alone would leave: the collection it found plus the new
\* articles of its batch.
MergedBy(w) ==
    FileOf(LoadExisting(files0[SaveSource])
             \o NewArticles(wbatch[w], LoadExisting(files0[SaveSource])))

\* C15: when a worker is interrupted and no other worker has touched the
\* file, the file is the one the worker found or the complete merged one.
C15_InterruptLeavesWholeFile ==
    \A w \in Workers :
        (wpc[w] = "interrupted" /\ \A v \in Workers \ {w} : wpc[v] = "start") =>
            \/ files[SaveSource] = files0[SaveSource]
            \/ files[SaveSource] = MergedBy(w)

\* Every request sent so far failed.
AllFailed == \A j \in 1..Len(attempts) : attempts[j] = "fail"

\* What holds of a call of search at each of its steps and at its end.
SearchBounded ==
    /\ Len(attempts) <= 6
    /\ ~AllGiven(args) => attempts = <<>>
    /\ spc = "done" =>
          /\ response # NoResponse
          /\ response # None =>
                /\ response = Response(Len(attempts))
                /\ attempts[Len(attempts)] = "ok"
                /\ \A j \in 1..(Len(attempts) - 1) : attempts[j] = "fail"
          /\ response = None <=>
                \/ ~AllGiven(args)
                \/ Len(attempts) = 6 /\ AllFailed

\* C20: every call of search ends; it sends at most 6 requests, returns the
\* response of the first request that succeeds and sends none after it, and
\* returns None exactly when all 6 requests failed or a required parameter
\* is missing, in which case it sends no request.
C20_SearchTerminates == []SearchBounded /\ <>(spc = "done")

\* C20 witness: a call with every parameter given returned the response of
\* its third request after two failures.
C20_Witness ==
    /\ spc = "done"
    /\ AllGiven(args)
    /\ attempts = <<"fail", "fail", "ok">>
    /\ response = Response(3)

\* The sources save_to_json was called for in this run, write failures
\* included.
SavedSources ==
    {s \in BatchSources :
        \/ nSaves >= 1 /\ lastSave.source = s
        \/ nSaves >= 2 /\ prevSave.source = s
        \/ saveFault # NoFault /\ saveFault.source = s}

\* C23: while a url of the batch is still unprocessed, also when the run
\* has ended there, no file differs from what the run found and save_to_json
\* was not called; the groups of the run are one per source, and the calls of
\* save_to_json are as many as the sources they were made for.
C23_SavesAfterLoopOncePerSource ==
    /\ (pc = "start" \/ i < Len(urls)) =>
          /\ files = files0
          /\ nSaves = 0
          /\ saveFault = NoFault
    /\ \A a, b \in 1..Len(grouped_articles) :
          a # b => grouped_articles[a].source # grouped_articles[b].source
    /\ nSaves = k
    /\ k <= Len(grouped_articles)
    /\ nSaves + (IF saveFault = NoFault THEN 0 ELSE 1) = Cardinality(SavedSources)
    /\ \A s \in BatchSources \ SavedSources : files[s] = files0[s]

\* C23 witness: a run of two urls extracted an article with accepted content
\* from the first, ended on the second, and left every file as it was.
C23_Witness ==
    /\ pc = "raised"
    /\ Len(urls) = 2
    /\ i = 1
    /\ Len(grouped_articles) = 1
    /\ Accepts(grouped_articles[1].articles[1].content)
    /\ grouped_articles[1].articles[1].content # SENTINEL
    /\ files = files0

\* The normalised text of the j-th div of the page, and whether the div is
\* eligible: its text can be read, is longer than 200 characters once
\* normalised, and holds no skip word.
DivText(j) == remove_footer_lines(clean_text(fetched.page.divs[j].text))
Eligible(j) ==
    /\ fetched.page.divs[j].st = "found"
    /\ TextLen(DivText(j)) > 200
    /\ \A x \in 1..Len(DivText(j)) : DivText(j)[x].k # "skip"
EligibleDivs == {j \in 1..Len(fetched.page.divs) : Eligible(j)}

\* C25: in a call for LiveMint on a page on which no listed selector yields
\* more than 200 normalised characters: when some div is eligible, the call
\* returns the normalised text of the earliest of the longest eligible divs and
\* paragraph aggregation is not attempted; when none is, paragraph
\* aggregation is attempted and its candidate is returned if longer than 200;
\* the sentinel is returned only when no div is eligible and the paragraph
\* candidate is not longer than 200.
C25_LargestBlock ==
    (/\ Extracted
     /\ call.source = "LiveMint"
     /\ \A j \in 1..Len(livemint_selectors) : ~Yields(j)) =>
        /\ EligibleDivs # {} =>
              /\ result.outcome = "return"
              /\ result.trace[Len(result.trace)] = "largest-block"
              /\ \E j \in EligibleDivs :
                    /\ result.article.content = DivText(j)
                    /\ \A h \in EligibleDivs : TextLen(DivText(h)) <= TextLen(DivText(j))
                    /\ \A h \in EligibleDivs :
                          h < j => TextLen(DivText(h)) < TextLen(DivText(j))
        /\ EligibleDivs = {} =>
              /\ result.trace[Len(result.trace)] = "paragraphs"
              /\ result.trace[Len(result.trace) - 1] = "largest-block"
              /\ TextLen(ParaCandidate) > 200 =>
                    result.outcome = "return" /\ result.article.content = ParaCandidate
        /\ (result.outcome = "return" /\ result.article.content = SENTINEL) =>
              EligibleDivs = {} /\ TextLen(ParaCandidate) <= 200

\* C25 witness: a LiveMint page without a yielding selector holds two
\* eligible divs of the same length, 300 characters, with different texts;
\* the call returned the text of the first.
C25_Witness ==
    /\ Extracted
    /\ call.source = "LiveMint"
    /\ \A j \in 1..Len(livemint_selectors) : ~Yields(j)
    /\ EligibleDivs = {1, 2}
    /\ TextLen(DivText(1)) = TextLen(DivText(2))
    /\ DivText(1) # DivText(2)
    /\ result.outcome = "return"
    /\ result.article.content = DivText(1)

\* C24: once search and search_news have both returned against the same
\* API, they have sent the same requests, at most 6; both returned the
\* response of the first request that succeeded, or both None after six
\* failures; and search_news has called time.sleep as often as search, plus
\* once when the sixth request failed.
C24_RetryLoopsAgree ==
    (spc = "done" /\ sn_pc = "done") =>
        /\ attempts = sn_attempts
        /\ Len(attempts) <= 6
        /\ response = sn_response
        /\ response = None <=> (Len(attempts) = 6 /\ AllFailed)
        /\ response # None =>
              /\ response = Response(Len(attempts))
              /\ pattern[Len(attempts)] = "ok"
              /\ \A j \in 1..(Len(attempts) - 1) : pattern[j] = "fail"
        /\ sn_waits = waits + (IF response = None THEN 1 ELSE 0)

\* C24 witness: all six requests of both calls failed; both returned None,
\* search after 5 waits and search_news after 6.
C24_Witness ==
    /\ spc = "done"
    /\ sn_pc = "done"
    /\ Len(attempts) = 6
    /\ AllFailed
    /\ attempts = sn_attempts
    /\ response = None
    /\ sn_response = None
    /\ waits = 5
    /\ sn_waits = 6

\* C21: every entry of the structured results main returns has the title,
\* description, date_published and source of one and the same collected
\* search result.
C21_EntryFromOneResult ==
    (ppc = "done" /\ returned.kind = "dict") =>
        \A n \in 1..Len(returned.results) :
            \E j \in 1..Len(aggregated_results) :
                returned.results[n] = aggregated_results[j]

\* What holds of the pagination loop at each of its steps.
PageBounded ==
    /\ Len(searches) <= 10
    /\ Len(searches) = pagination_attempt
    /\ Len(aggregated_results) <= total_results_needed
    /\ \A n \in 1..Len(searches) :
          searches[n].token = IF n = 1 THEN 0 ELSE searches[n - 1].next
    /\ \A n \in 1..(Len(searches) - 1) :
          searches[n].kind = "response" /\ searches[n].next # 0
    /\ (ppc = "loop" /\ searches # <<>>) =>
          /\ searches[Len(searches)].kind = "response"
          /\ searches[Len(searches)].next # 0
          /\ current_page_token = searches[Len(searches)].next

\* C22: the pagination loop ends; search is called at most 10 times, never
\* after a call that returned None or a response without a next page token;
\* each call is passed the next page token of the response before it (the
\* first the empty token); and never more than total_results_needed results
\* are collected.
C22_PaginationTerminates == []PageBounded /\ <>(ppc = "done")

\* C22 witness: main was asked for two results, called search ten times, every
\* response but the last carrying a next page token, and ended with fewer
\* than two results.
C22_Witness ==
    /\ ppc = "done"
    /\ total_results_needed = 2
    /\ Len(searches) = 10
    /\ searches[10].kind = "response"
    /\ searches[10].token = 9
    /\ searches[10].next # 0
    /\ Len(aggregated_results) = 1

====
